---- MODULE Spec2Model ----
(***************************************************************************)
(* Model of the Sparkify ETL pipeline (etl.py): main opens the store,      *)
(* process_data walks a directory and applies process_song_file or         *)
(* process_log_file to every file found, committing after each one.        *)
(*                                                                         *)
(* Representation choices:                                                 *)
(*  - a timestamp is a whole number of hours since 1970-01-01T00:00Z;      *)
(*  - a duration/length is a whole number of milliseconds, so that the     *)
(*    float equality of the lookup is equality of the decimal literal;     *)
(*  - None is NULL for text fields and NaN for numeric ones;               *)
(*  - the location and userAgent values of a log line are copied by the    *)
(*    code unchanged and are left out of the rows; their columns are kept. *)
(*  - sql_queries.py is not part of the sources: the statements it defines *)
(*    are modelled from the written specification (see the store section). *)
(***************************************************************************)
EXTENDS Integers, Sequences, FiniteSets, TLC

VARIABLES
    pc,        \* position of main/process_data
    stage,     \* the directory process_data is working on
    found,     \* number of files os.walk found, per directory
    i,         \* files of the current directory handled so far
    db,        \* the five tables of the store
    commits,   \* the conn.commit() calls, as <<directory, file number>>
    cur,       \* the content of the file given to the last func call
    issued,    \* the cur.execute calls of the last func call, in order
    outcome,   \* how the last func call ended: "returned" or "raised"
    before,    \* the tables when the last func call began
    prev,      \* the file and statement outcomes of the call before the last
    faults     \* number of statements the store has rejected so far

vars ==
    <<pc, stage, found, i, db, commits, cur, issued, outcome, before, prev,
      faults>>

----------------------------------------------------------------------------
(* Bounds of the model *)

MaxSongFiles == 2
MaxLogFiles == 2
MaxRejects == 1

----------------------------------------------------------------------------
(* Values *)

NULL == "NULL"
NaN == 0 - 1

Range(s) == {s[k] : k \in 1..Len(s)}

ArtistCols ==
    {"artist_id", "artist_name", "artist_location", "artist_latitude",
     "artist_longitude"}

SongCols == {"song_id", "title", "artist_id", "year", "duration"}

UserCols == {"userId", "firstName", "lastName", "gender", "level"}

DropnaCols == {"artist", "song", "length"}

SongplayCols == {"sessionId", "location", "userAgent"}

LogCols == {"ts", "page"} \cup UserCols \cup DropnaCols \cup SongplayCols

----------------------------------------------------------------------------
(* Calendar arithmetic of pandas' .dt accessors, on hours since the epoch *)

DaysOf(ts) == ts \div 24

\* days since the epoch -> <<year, month, day of month>> (proleptic Gregorian)
CivilFromDays(z0) ==
    LET z == z0 + 719468
        era == z \div 146097
        doe == z - era * 146097
        yoe == (doe - doe \div 1460 + doe \div 36524 - doe \div 146096) \div 365
        doy == doe - (365 * yoe + yoe \div 4 - yoe \div 100)
        mp == (5 * doy + 2) \div 153
        d == doy - (153 * mp + 2) \div 5 + 1
        m == IF mp < 10 THEN mp + 3 ELSE mp - 9
        y == yoe + era * 400 + (IF m <= 2 THEN 1 ELSE 0)
    IN  <<y, m, d>>

\* <<year, month, day>> -> days since the epoch
DaysFromCivil(y0, m, d) ==
    LET y == IF m <= 2 THEN y0 - 1 ELSE y0
        era == y \div 400
        yoe == y - era * 400
        mp == IF m > 2 THEN m - 3 ELSE m + 9
        doy == (153 * mp + 2) \div 5 + d - 1
        doe == yoe * 365 + yoe \div 4 - yoe \div 100 + doy
    IN  era * 146097 + doe - 719468

Hour(ts) == ts % 24

\* Series.dt.weekday: Monday is 0
Weekday(ts) == (DaysOf(ts) + 3) % 7

Month(ts) == CivilFromDays(DaysOf(ts))[2]

DayOfMonth(ts) == CivilFromDays(DaysOf(ts))[3]

\* the Thursday of the ISO week of ts decides the ISO year
IsoThursday(ts) == DaysOf(ts) - Weekday(ts) + 3

\* Series.dt.isocalendar(): columns year, week, day
IsoYear(ts) == CivilFromDays(IsoThursday(ts))[1]

IsoWeek(ts) == (IsoThursday(ts) - DaysFromCivil(IsoYear(ts), 1, 1)) \div 7 + 1

IsoDay(ts) == Weekday(ts) + 1

\* the row of time_df for one timestamp (etl.py: time_data, column_labels)
TimeRow(ts) ==
    [start_time |-> ts, hour |-> Hour(ts), day |-> IsoDay(ts),
     week |-> IsoWeek(ts), month |-> Month(ts), year |-> IsoYear(ts),
     weekday |-> Weekday(ts)]

----------------------------------------------------------------------------
(* The input files.  A file is what pd.read_json makes of it: whether it   *)
(* parses, the columns of the frame, and its rows.                         *)

AllCols == ArtistCols \cup SongCols

SongFile(parses, cols, artist_id, artist_name, song_id, title, duration) ==
    [kind |-> "song", parses |-> parses, cols |-> cols,
     artist_id |-> artist_id, artist_name |-> artist_name,
     song_id |-> song_id, title |-> title, duration |-> duration]

SongFiles ==
    { SongFile(TRUE, AllCols, "A1", "Nirvana", "S1", "X", 200000),
      SongFile(TRUE, AllCols, "A1", "Nirvana", "S2", "X", 200000),
      SongFile(TRUE, AllCols \ {"title"}, "A2", "Other", "S3", NULL, 200500),
      SongFile(TRUE, AllCols \ {"artist_name"}, "A2", NULL, "S3", "Y", 200500),
      SongFile(FALSE, {}, NULL, NULL, NULL, NULL, NaN) }

Line(ts, page, userId, level, artist, song, length, sessionId) ==
    [ts |-> ts, page |-> page, userId |-> userId, level |-> level,
     artist |-> artist, song |-> song, length |-> length,
     sessionId |-> sessionId]

\* 2018-11-02T01 (a Friday), 2021-01-01T00 (a Friday, ISO 2020-W53),
\* 2018-12-31T23 (a Monday, ISO 2019-W01), as hours since the epoch
T1 == 17837 * 24 + 1
T2 == 18628 * 24
T3 == 17896 * 24 + 23

PlayExact == Line(T1, "NextSong", "7", "free", "Nirvana", "X", 200000, 1)
PlayHalf == Line(T2, "NextSong", "7", "paid", "Nirvana", "X", 200500, 1)
PlayAnon == Line(T3, "NextSong", "", "free", "Nirvana", "X", 200000, 2)
NextNoSong == Line(T3, "NextSong", "8", "paid", NULL, NULL, NaN, 3)
Home == Line(T2, "Home", "7", "free", NULL, NULL, NaN, 1)
HomeWithSong == Line(T3, "Home", "8", "free", "Nirvana", "X", 200000, 3)

LogFile(parses, cols, lines) ==
    [kind |-> "log", parses |-> parses, cols |-> cols, lines |-> lines]

LogFiles ==
    { LogFile(TRUE, LogCols, <<PlayExact, PlayHalf>>),
      LogFile(TRUE, LogCols, <<PlayHalf, Home>>),
      LogFile(TRUE, LogCols, <<PlayAnon, HomeWithSong>>),
      LogFile(TRUE, LogCols \ {"ts"}, <<PlayExact>>),
      LogFile(TRUE, LogCols \ {"page"}, <<PlayExact>>),
      LogFile(TRUE, LogCols \ {"gender"}, <<NextNoSong>>),
      LogFile(TRUE, LogCols \ {"length"}, <<PlayExact>>),
      LogFile(TRUE, LogCols \ {"sessionId"}, <<PlayExact>>),
      LogFile(FALSE, {}, <<>>) }

NoFile == [kind |-> "none"]

----------------------------------------------------------------------------
(* The store behind the cursor: the statements of sql_queries.py.          *)

EmptyDb ==
    [artists |-> {}, songs |-> {}, users |-> {}, time |-> {},
     songplays |-> <<>>]

\* INSERT INTO artists ... ON CONFLICT (artist_id) DO NOTHING
artist_table_insert(d, row) ==
    IF \E a \in d.artists : a.artist_id = row.artist_id
    THEN d
    ELSE [d EXCEPT !.artists = @ \cup {row}]

\* INSERT INTO songs ... ON CONFLICT (song_id) DO NOTHING
song_table_insert(d, row) ==
    IF \E s \in d.songs : s.song_id = row.song_id
    THEN d
    ELSE [d EXCEPT !.songs = @ \cup {row}]

\* INSERT INTO time ... ON CONFLICT (start_time) DO NOTHING
time_table_insert(d, row) ==
    IF \E t \in d.time : t.start_time = row.start_time
    THEN d
    ELSE [d EXCEPT !.time = @ \cup {row}]

\* INSERT INTO users ... ON CONFLICT (user_id) DO UPDATE SET level = EXCLUDED.level
user_table_insert(d, row) ==
    IF \E u \in d.users : u.user_id = row.user_id
    THEN [d EXCEPT !.users =
            {IF u.user_id = row.user_id
             THEN [u EXCEPT !.level = row.level] ELSE u : u \in @}]
    ELSE [d EXCEPT !.users = @ \cup {row}]

\* INSERT INTO songplays ...: the key is a serial, every insert adds a row
songplay_table_insert(d, row) ==
    [d EXCEPT !.songplays = Append(@, row)]

\* SELECT song_id, artist_id FROM songs JOIN artists USING (artist_id)
\*  WHERE title = %s AND name = %s AND duration = %s
song_select(d, song, artist, length) ==
    { <<s.song_id, a.artist_id>> :
        <<s, a>> \in { p \in d.songs \X d.artists :
                         /\ p[1].artist_id = p[2].artist_id
                         /\ p[1].title = song
                         /\ p[2].name = artist
                         /\ p[1].duration = length } }

\* cursor.fetchone(): None (the empty tuple here) or one row of the result;
\* which one is the store's choice, "first" being the row it prefers
fetchone(rows, first) ==
    IF rows = {} THEN <<>>
    ELSE IF \E r \in rows : r[1] = first
         THEN CHOOSE r \in rows : r[1] = first
         ELSE CHOOSE r \in rows : TRUE

\* one cur.execute: the n-th statement of a call is rejected (psycopg2.Error)
\* when n is in rej, and has its effect otherwise
Stmt(op, line, ok, songid, artistid) ==
    [op |-> op, line |-> line, ok |-> ok, songid |-> songid,
     artistid |-> artistid]

Execute(acc, rej, op, line, effect, songid, artistid) ==
    LET ok == (Len(acc.issued) + 1) \notin rej
    IN  [acc EXCEPT !.issued = Append(@, Stmt(op, line, ok, songid, artistid)),
                    !.db = IF ok THEN effect ELSE @]

LastOk(acc) == acc.issued[Len(acc.issued)].ok

----------------------------------------------------------------------------
(* process_song_file                                                       *)

Start(d) == [db |-> d, issued |-> <<>>, outcome |-> "returned"]

Raise(acc) == [acc EXCEPT !.outcome = "raised"]

\* df[["artist_id", "artist_name", ...]].values[0]
artist_data(f) == [artist_id |-> f.artist_id, name |-> f.artist_name]

\* df[["song_id", "title", "artist_id", "year", "duration"]].values[0]
song_data(f) ==
    [song_id |-> f.song_id, title |-> f.title, artist_id |-> f.artist_id,
     duration |-> f.duration]

process_song_file(d, f, rej) ==
    IF ~f.parses THEN Start(d)
    ELSE IF ~(ArtistCols \subseteq f.cols) THEN Start(d)
    ELSE
      LET a1 == Execute(Start(d), rej, "artist", 0,
                        artist_table_insert(d, artist_data(f)), NULL, NULL)
      IN  IF ~LastOk(a1) THEN a1
          ELSE IF ~(SongCols \subseteq f.cols) THEN a1
          ELSE Execute(a1, rej, "song", 0,
                       song_table_insert(a1.db, song_data(f)), NULL, NULL)

----------------------------------------------------------------------------
(* process_log_file                                                        *)

\* the index of the frame read from the file: its rows, in file order
Index(f) == [k \in 1..Len(f.lines) |-> k]

\* t = df[df["page"] == "NextSong"]
NextSongRows(f) ==
    SelectSeq(Index(f), LAMBDA k : f.lines[k].page = "NextSong")

\* mutant: the filter on the empty userId is left out
UserRowsUnfiltered(f) == Index(f)

\* user_df = user_df[user_df["userId"] != ""]
UserRows(f) == SelectSeq(Index(f), LAMBDA k : f.lines[k].userId # "")

\* mutant: the rows with a missing value are the ones kept
PlayRowsInverted(f) ==
    SelectSeq(Index(f),
              LAMBDA k : \/ f.lines[k].artist = NULL
                         \/ f.lines[k].song = NULL
                         \/ f.lines[k].length = NaN)

\* df.dropna(axis=0, subset=["artist", "song", "length"], inplace=True)
PlayRows(f) ==
    SelectSeq(Index(f),
              LAMBDA k : /\ f.lines[k].artist # NULL
                         /\ f.lines[k].song # NULL
                         /\ f.lines[k].length # NaN)

user_data(row) == [user_id |-> row.userId, level |-> row.level]

\* mutant: the two columns of the result row are unpacked in the wrong order
ResolveSwapped(results) ==
    IF results # <<>> THEN <<results[2], results[1]>> ELSE <<NULL, NULL>>

\* results = cur.fetchone(); if results: ... else: songid, artistid = None, None
Resolve(results) ==
    IF results # <<>> THEN <<results[1], results[2]>> ELSE <<NULL, NULL>>

songplay_data(row, ids) ==
    [start_time |-> row.ts, user_id |-> row.userId, level |-> row.level,
     song_id |-> ids[1], artist_id |-> ids[2], session_id |-> row.sessionId]

\* for i, row in time_df.iterrows(): cur.execute(time_table_insert, ...)
RECURSIVE InsertTimeRecords(_, _, _, _)
InsertTimeRecords(acc, f, rows, rej) ==
    IF rows = <<>> THEN acc
    ELSE InsertTimeRecords(
            Execute(acc, rej, "time", Head(rows),
                    time_table_insert(acc.db, TimeRow(f.lines[Head(rows)].ts)),
                    NULL, NULL),
            f, Tail(rows), rej)

\* for i, row in user_df.iterrows(): cur.execute(user_table_insert, row)
RECURSIVE InsertUserRecords(_, _, _, _)
InsertUserRecords(acc, f, rows, rej) ==
    IF rows = <<>> THEN acc
    ELSE InsertUserRecords(
            Execute(acc, rej, "user", Head(rows),
                    user_table_insert(acc.db, user_data(f.lines[Head(rows)])),
                    NULL, NULL),
            f, Tail(rows), rej)

\* mutant: a rejected lookup leaves the function instead of the iteration
RECURSIVE InsertSongplayRecordsReturn(_, _, _, _, _)
InsertSongplayRecordsReturn(acc, f, rows, rej, first) ==
    IF rows = <<>> THEN acc
    ELSE
      LET row == f.lines[Head(rows)]
          a1 == Execute(acc, rej, "select", Head(rows), acc.db, NULL, NULL)
          ids == Resolve(fetchone(
                    song_select(acc.db, row.song, row.artist, row.length), first))
      IN  IF ~LastOk(a1) THEN a1
          ELSE IF ~(SongplayCols \subseteq f.cols) THEN Raise(a1)
          ELSE InsertSongplayRecordsReturn(
                  Execute(a1, rej, "songplay", Head(rows),
                          songplay_table_insert(a1.db, songplay_data(row, ids)),
                          ids[1], ids[2]),
                  f, Tail(rows), rej, first)

\* the loop over the rows left by dropna: lookup, then songplay insert
RECURSIVE InsertSongplayRecords(_, _, _, _, _)
InsertSongplayRecords(acc, f, rows, rej, first) ==
    IF rows = <<>> THEN acc
    ELSE
      LET row == f.lines[Head(rows)]
          a1 == Execute(acc, rej, "select", Head(rows), acc.db, NULL, NULL)
          ids == Resolve(fetchone(
                    song_select(acc.db, row.song, row.artist, row.length), first))
      IN  IF ~LastOk(a1)
          THEN InsertSongplayRecords(a1, f, Tail(rows), rej, first)
          ELSE IF ~(SongplayCols \subseteq f.cols) THEN Raise(a1)
          ELSE InsertSongplayRecords(
                  Execute(a1, rej, "songplay", Head(rows),
                          songplay_table_insert(a1.db, songplay_data(row, ids)),
                          ids[1], ids[2]),
                  f, Tail(rows), rej, first)

process_log_file(d, f, rej, first) ==
    IF ~f.parses THEN Start(d)
    ELSE IF "ts" \notin f.cols THEN Raise(Start(d))
    ELSE IF "page" \notin f.cols THEN Raise(Start(d))
    ELSE
      LET a1 == InsertTimeRecords(Start(d), f, NextSongRows(f), rej)
      IN  IF ~(UserCols \subseteq f.cols) THEN a1
          ELSE
            LET a2 == InsertUserRecords(a1, f, UserRows(f), rej)
            IN  IF ~(DropnaCols \subseteq f.cols) THEN Raise(a2)
                ELSE InsertSongplayRecords(a2, f, PlayRows(f), rej, first)

----------------------------------------------------------------------------
(* main and process_data                                                   *)

\* the statements of one call that the store may reject: at most MaxRejects
\* statements are rejected in one run of the program
Rejects(n) ==
    {rej \in SUBSET (1..n) : Cardinality(rej) + faults <= MaxRejects}

Failed(stmts) == Cardinality({k \in 1..Len(stmts) : ~stmts[k].ok})

MaxStmts(f) == IF f.kind = "song" THEN 2 ELSE 4 * Len(f.lines)

Clean(stmts) == \A k \in 1..Len(stmts) : stmts[k].ok

Init ==
    /\ pc = "main"
    /\ stage = "song_data"
    /\ found = [song_data |-> 0, log_data |-> 0]
    /\ i = 0
    /\ db = EmptyDb
    /\ commits = <<>>
    /\ cur = NoFile
    /\ issued = <<>>
    /\ outcome = "returned"
    /\ before = EmptyDb
    /\ prev = [file |-> NoFile, clean |-> TRUE]
    /\ faults = 0

\* where process_data goes when its loop is over
LoopDone ==
    IF stage = "song_data"
    THEN pc' = "walk" /\ stage' = "log_data"
    ELSE pc' = "close" /\ stage' = stage

\* psycopg2.connect and conn.cursor: main returns when either fails
Connect ==
    /\ pc = "main"
    /\ \E ok \in BOOLEAN : pc' = IF ok THEN "walk" ELSE "exit"
    /\ UNCHANGED <<stage, found, i, db, commits, cur, issued, outcome, before,
                   prev, faults>>

\* os.walk/glob: the number of files is all the loop depends on; a file's
\* content is read when func is called on it
Walk ==
    /\ pc = "walk"
    /\ \E n \in 0..(IF stage = "song_data" THEN MaxSongFiles ELSE MaxLogFiles) :
          /\ found' = [found EXCEPT ![stage] = n]
          /\ IF n = 0 THEN LoopDone ELSE pc' = "call" /\ stage' = stage
    /\ i' = 0
    /\ UNCHANGED <<db, commits, cur, issued, outcome, before, prev, faults>>

Called(f, r) ==
    /\ db' = r.db
    /\ issued' = r.issued
    /\ outcome' = r.outcome
    /\ cur' = f
    /\ before' = db
    /\ prev' = [file |-> cur, clean |-> Clean(issued)]
    /\ faults' = faults + Failed(r.issued)
    /\ pc' = IF r.outcome = "raised" THEN "aborted" ELSE "commit"
    /\ UNCHANGED <<stage, found, i, commits>>

CallSong ==
    /\ pc = "call"
    /\ stage = "song_data"
    /\ \E f \in SongFiles : \E rej \in Rejects(MaxStmts(f)) :
          Called(f, process_song_file(db, f, rej))

CallLog ==
    /\ pc = "call"
    /\ stage = "log_data"
    /\ \E f \in LogFiles : \E rej \in Rejects(MaxStmts(f)) :
       \E first \in {"S1", "S2"} :
          Called(f, process_log_file(db, f, rej, first))

Commit ==
    /\ pc = "commit"
    /\ commits' = Append(commits, <<stage, i + 1>>)
    /\ i' = i + 1
    /\ IF i + 1 = found[stage] THEN LoopDone ELSE pc' = "call" /\ stage' = stage
    /\ UNCHANGED <<found, db, cur, issued, outcome, before, prev, faults>>

Close ==
    /\ pc = "close"
    /\ pc' = "exit"
    /\ UNCHANGED <<stage, found, i, db, commits, cur, issued, outcome, before,
                   prev, faults>>

Next == Connect \/ Walk \/ CallSong \/ CallLog \/ Commit \/ Close

Spec == Init /\ [][Next]_vars

TypeOK ==
    /\ pc \in {"main", "walk", "call", "commit", "close", "exit", "aborted"}
    /\ stage \in {"song_data", "log_data"}
    /\ i \in 0..(MaxSongFiles + MaxLogFiles)
    /\ outcome \in {"returned", "raised"}

----------------------------------------------------------------------------
(* Properties.  cur, issued, outcome and before describe the last call of  *)
(* func and keep their values until the next call.                         *)

Stmts(op) == {k \in 1..Len(issued) : issued[k].op = op}

StmtsFor(op, line) == {k \in Stmts(op) : issued[k].line = line}

SchemaValid(f) ==
    /\ f.parses
    /\ IF f.kind = "song" THEN AllCols \subseteq f.cols
       ELSE LogCols \subseteq f.cols

\* a play event: a "NextSong" line with artist, song and length present
PlayEvent(l) ==
    l.page = "NextSong" /\ l.artist # NULL /\ l.song # NULL /\ l.length # NaN

\* C1: for a line of a log file whose page is not "NextSong", no time insert
\* and no songplay insert is issued, whatever its artist, song and length.
C1_NoInsertForOtherPages ==
    cur.kind = "log" =>
        \A k \in Stmts("time") \cup Stmts("songplay") :
            cur.lines[issued[k].line].page = "NextSong"

\* C2: every call of process_song_file and process_log_file returns normally
\* to process_data, also for a file that parses but lacks an expected field:
\* no error ends the batch.
C2_NoErrorEndsBatch == outcome = "returned" /\ pc # "aborted"

\* C3: a file that parses but lacks a required field is skipped as a whole:
\* the store is left as it was before the file was processed.
C3_MalformedFileLeavesStore ==
    (cur.kind # "none" /\ cur.parses /\ ~SchemaValid(cur)) => db = before

\* C4: a rejected insert skips only that record: every other record derived
\* from the same file is still submitted (song file: the artist insert and the
\* song insert are both issued; log file: one time insert per NextSong line,
\* one user insert per line with a userId, one songplay insert per looked-up
\* event), and the call returns so that later files are processed.
C4_OtherRecordsStillSubmitted ==
    (cur.kind # "none" /\ SchemaValid(cur)) =>
        /\ outcome = "returned"
        /\ cur.kind = "song" => Stmts("artist") # {} /\ Stmts("song") # {}
        /\ cur.kind = "log" =>
              /\ \A r \in Range(NextSongRows(cur)) : StmtsFor("time", r) # {}
              /\ \A r \in Range(UserRows(cur)) : StmtsFor("user", r) # {}
              /\ \A r \in Range(PlayRows(cur)) :
                    (\E k \in StmtsFor("select", r) : issued[k].ok)
                        => StmtsFor("songplay", r) # {}

\* a stored song/artist pair whose title, name and duration equal the line's
StoredMatch(l, songid, artistid) ==
    \E s \in db.songs : \E a \in db.artists :
        /\ s.song_id = songid /\ a.artist_id = artistid
        /\ s.artist_id = a.artist_id
        /\ s.title = l.song /\ a.name = l.artist /\ s.duration = l.length

\* the rows the last call appended to songplays
Appended == SubSeq(db.songplays, Len(before.songplays) + 1, Len(db.songplays))

\* the accepted songplay inserts of the last call, in order
Accepted == SelectSeq(issued, LAMBDA st : st.op = "songplay" /\ st.ok)

\* C5: the songplay record inserted for a play event carries the (song_id,
\* artist_id) of a stored song/artist row whose title, artist name and
\* duration equal the event's song, artist and length, and (null, null) when
\* there is no such row; with only song S1 of artist A1 (Nirvana, X, 200.0)
\* stored, the line (Nirvana, X, 200.0) gets (S1, A1) and the line with length
\* 200.5 gets (null, null).
C5_SongplayKeysFromStore ==
    cur.kind = "log" =>
        /\ Len(Appended) = Len(Accepted)
        /\ \A n \in 1..Len(Accepted) :
              /\ Appended[n].song_id = Accepted[n].songid
              /\ Appended[n].artist_id = Accepted[n].artistid
              /\ Appended[n].start_time = cur.lines[Accepted[n].line].ts
        /\ \A k \in Stmts("songplay") :
              LET l == cur.lines[issued[k].line]
                  sid == issued[k].songid
                  aid == issued[k].artistid
              IN  /\ IF \E x \in {"S1", "S2", "S3"} : \E y \in {"A1", "A2"} :
                            StoredMatch(l, x, y)
                     THEN StoredMatch(l, sid, aid)
                     ELSE sid = NULL /\ aid = NULL
                  /\ (sid = NULL) <=> (aid = NULL)
                  /\ ({s.song_id : s \in db.songs} = {"S1"} /\ l = PlayExact)
                        => (sid = "S1" /\ aid = "A1")
                  /\ l = PlayHalf => (sid = NULL /\ aid = NULL)

C5_Witness ==
    /\ cur.kind = "log"
    /\ {s.song_id : s \in db.songs} = {"S1"}
    /\ \E k \in Stmts("songplay") :
          /\ issued[k].ok /\ cur.lines[issued[k].line] = PlayExact
          /\ issued[k].songid = "S1" /\ issued[k].artistid = "A1"
    /\ \E k \in Stmts("songplay") :
          /\ issued[k].ok /\ cur.lines[issued[k].line] = PlayHalf
          /\ issued[k].songid = NULL /\ issued[k].artistid = NULL

\* the last line of the file that carries the userId of line r
LastLineOf(f, r) ==
    CHOOSE k \in 1..Len(f.lines) :
        /\ f.lines[k].userId = f.lines[r].userId
        /\ \A m \in (k + 1)..Len(f.lines) :
              f.lines[m].userId # f.lines[r].userId

\* C6: after process_log_file has processed a log file (the store accepting
\* its user inserts and overwriting level on conflict), users holds no row for
\* an empty userId, and for every non-empty userId of the file exactly one
\* row, whose level is that of the last line of the file with that userId.
C6_LastLevelWins ==
    /\ \A u \in db.users : u.user_id # ""
    /\ (cur.kind = "log" /\ SchemaValid(cur)
            /\ \A k \in Stmts("user") : issued[k].ok) =>
          \A r \in 1..Len(cur.lines) :
              cur.lines[r].userId # "" =>
                  /\ Cardinality({u \in db.users :
                                    u.user_id = cur.lines[r].userId}) = 1
                  /\ \A u \in db.users :
                        u.user_id = cur.lines[r].userId =>
                            u.level = cur.lines[LastLineOf(cur, r)].level

C6_Witness ==
    /\ cur.kind = "log" /\ SchemaValid(cur)
    /\ \A k \in Stmts("user") : issued[k].ok
    /\ \E r \in 1..Len(cur.lines) :
          /\ cur.lines[r].userId = "7"
          /\ LastLineOf(cur, r) # r
          /\ cur.lines[LastLineOf(cur, r)].level # cur.lines[r].level
          /\ \E u \in before.users : u.user_id = "7" /\ u.level = "paid"
          /\ \E u \in db.users : u.user_id = "7" /\ u.level = "free"

Count(seq, x) == Cardinality({k \in 1..Len(seq) : seq[k] = x})

CommittedUpTo(s, n) == \A k \in 1..n : Count(commits, <<s, k>>) = 1

\* C7: process_data commits exactly once per discovered file, after the
\* file's func call has returned and before the next file is begun, and main
\* commits every song file before any log file is processed.
C7_CommitOncePerFile ==
    /\ \A k \in 1..Len(commits) : Count(commits, commits[k]) = 1
    /\ pc \in {"call", "commit"} =>
          /\ CommittedUpTo(stage, i)
          /\ Count(commits, <<stage, i + 1>>) = 0
    /\ (stage = "log_data" /\ pc # "walk") =>
          CommittedUpTo("song_data", found.song_data)
    /\ (pc \in {"exit", "aborted"}) =>
          /\ CommittedUpTo("song_data", found.song_data)
          /\ CommittedUpTo("log_data", found.log_data)

Dimensions(d) == <<d.artists, d.songs, d.users, d.time>>

\* the last two calls were given the same file and the store accepted every
\* statement of both
Rerun ==
    /\ cur.kind # "none"
    /\ prev.file = cur
    /\ prev.clean
    /\ Clean(issued)

\* C8: processing the same file a second time leaves artists, songs, users
\* and time as they were after the first run, while songplays is not
\* idempotent: every play event of a re-processed log file is inserted again.
C8_DimensionsIdempotent ==
    Rerun =>
        /\ Dimensions(db) = Dimensions(before)
        /\ (cur.kind = "log" /\ SchemaValid(cur)) =>
              \A r \in 1..Len(cur.lines) :
                  PlayEvent(cur.lines[r]) =>
                      /\ \E n \in 1..Len(Appended) :
                            /\ Appended[n].start_time = cur.lines[r].ts
                            /\ Appended[n].user_id = cur.lines[r].userId
                            /\ Appended[n].session_id = cur.lines[r].sessionId
                      /\ \E n \in 1..Len(before.songplays) :
                            /\ before.songplays[n].start_time = cur.lines[r].ts
                            /\ before.songplays[n].user_id = cur.lines[r].userId
                      /\ Len(db.songplays) > Len(before.songplays)

C8_Witness ==
    /\ Rerun
    /\ cur.kind = "log" /\ SchemaValid(cur)
    /\ \E r \in 1..Len(cur.lines) : PlayEvent(cur.lines[r])
    /\ db.users # {} /\ db.time # {}
    /\ Len(db.songplays) >= 2 * Len(Appended)
    /\ Len(Appended) > 0

\* C9: the time record of a timestamp has day equal to the timestamp's day of
\* the month (1..31), hour in 0..23, ISO week in 1..53, month in 1..12, the
\* ISO year, and weekday in 0..6.
C9_DayIsDayOfMonth ==
    \A t \in db.time :
        /\ t.day = DayOfMonth(t.start_time)
        /\ t.day \in 1..31
        /\ t.hour \in 0..23
        /\ t.week \in 1..53
        /\ t.month \in 1..12
        /\ t.weekday \in 0..6

\* C10: when the lookup of one play event is rejected by the store, no
\* songplay record is inserted for that event, the lookup and the songplay
\* insert of every later event of the file are still issued, and the call
\* returns, so that the file is committed and process_data goes on with the
\* files after it.
C10_LookupFailureSkipsOneEvent ==
    (cur.kind = "log" /\ SchemaValid(cur)) =>
        \A k \in Stmts("select") :
            ~issued[k].ok =>
                /\ StmtsFor("songplay", issued[k].line) = {}
                /\ Len(Appended) = Len(Accepted)
                /\ \A r \in Range(PlayRows(cur)) :
                      r > issued[k].line =>
                          /\ StmtsFor("select", r) # {}
                          /\ (\E m \in StmtsFor("select", r) : issued[m].ok)
                                => StmtsFor("songplay", r) # {}
                /\ outcome = "returned"
                /\ pc \in {"commit", "call", "close", "exit"}
                /\ pc # "commit" => Count(commits, <<"log_data", i>>) = 1
                /\ pc = "call" => i < found.log_data
                /\ pc \in {"close", "exit"} => i = found.log_data

C10_Witness ==
    /\ cur.kind = "log" /\ SchemaValid(cur)
    /\ pc = "call"
    /\ \E k \in Stmts("select") :
          /\ ~issued[k].ok
          /\ \E m \in Stmts("songplay") :
                issued[m].line > issued[k].line /\ issued[m].ok

====
